---- MODULE Spec2Model ----
(***************************************************************************)
(* Model of app.py: a Streamlit script that stages an audio clip in a      *)
(* temporary file, transcribes it, analyses the transcript with a language *)
(* model, parses the model's JSON answer and renders the result.           *)
(*                                                                         *)
(* Text is modelled as a sequence of lexical units.  A unit is either one  *)
(* character ("{", "}", the double quote, ":", ",", " ", newline, form     *)
(* feed, ".") or a run of characters that contains none of those (a word   *)
(* such as "threat_level", a number literal such as "-0.8", a code fence). *)
(* Indices are Python's: 0-based, -1 for "not found".                      *)
(***************************************************************************)
EXTENDS Integers, Sequences, FiniteSets, TLC

(***************************************************************************)
(* Python str primitives used by analyze_text                              *)
(***************************************************************************)

\* str.strip() removes these; json accepts only the first two between tokens.
PyWhitespace == {" ", "\n", "\f"}
JsonWhitespace == {" ", "\n"}
\* characters below 0x20, rejected inside a JSON string by the strict decoder
ControlChars == {"\n", "\f"}

\* s[i:i+1] : the unit at Python index i, or "" out of range
At(s, i) == IF i >= 0 /\ i < Len(s) THEN s[i + 1] ELSE ""

RECURSIVE LStrip(_)
LStrip(s) == IF s # <<>> /\ Head(s) \in PyWhitespace THEN LStrip(Tail(s)) ELSE s

RECURSIVE RStrip(_)
RStrip(s) ==
  IF s # <<>> /\ s[Len(s)] \in PyWhitespace THEN RStrip(SubSeq(s, 1, Len(s) - 1)) ELSE s

\* str.strip()
Strip(s) == RStrip(LStrip(s))

\* str.find(c): lowest index of c, -1 when absent
RECURSIVE FindFrom(_, _, _)
FindFrom(s, c, i) ==
  IF i >= Len(s) THEN -1 ELSE IF s[i + 1] = c THEN i ELSE FindFrom(s, c, i + 1)

Find(s, c) == FindFrom(s, c, 0)

\* str.rfind(c): highest index of c, -1 when absent
RECURSIVE RFindFrom(_, _, _)
RFindFrom(s, c, i) ==
  IF i < 0 THEN -1 ELSE IF s[i + 1] = c THEN i ELSE RFindFrom(s, c, i - 1)

RFind(s, c) == RFindFrom(s, c, Len(s) - 1)

\* a slice bound as Python normalises it: negative counts from the end, then clamp
ClampIndex(n, i) ==
  LET j == IF i < 0 THEN i + n ELSE i
  IN  IF j < 0 THEN 0 ELSE IF j > n THEN n ELSE j

\* s[a:b]
PySlice(s, a, b) ==
  LET lo == ClampIndex(Len(s), a)
      hi == ClampIndex(Len(s), b)
  IN  IF lo >= hi THEN <<>> ELSE SubSeq(s, lo + 1, hi)

(***************************************************************************)
(* json.loads: the decoder of the standard library, on the units above     *)
(***************************************************************************)

\* A decoded value.  t is its Python type ("number" for int and float); s holds the units of a str or the
\* literal of a number; d holds the items of a dict in insertion order.
PyNone == [t |-> "NoneType", s |-> <<>>, d |-> <<>>]
PyStr(units) == [t |-> "str", s |-> units, d |-> <<>>]
PyNum(lit) == [t |-> "number", s |-> <<lit>>, d |-> <<>>]
PyDict(items) == [t |-> "dict", s |-> <<>>, d |-> items]

NumberLits == {"0.0", "-0.8", "1"}

\* dict[key] = value: a repeated key keeps its place and takes the new value
DictSet(items, key, value) ==
  IF \E i \in 1..Len(items) : items[i].k = key
  THEN [i \in 1..Len(items) |->
          IF items[i].k = key THEN [k |-> key, v |-> value] ELSE items[i]]
  ELSE Append(items, [k |-> key, v |-> value])

HasKey(val, key) == val.t = "dict" /\ \E i \in 1..Len(val.d) : val.d[i].k = key

GetItem(val, key) == val.d[CHOOSE i \in 1..Len(val.d) : val.d[i].k = key].v

\* the decoder's result: ok, the value, and the index after it
Decoded(val, end) == [ok |-> TRUE, val |-> val, end |-> end]
DecodeError == [ok |-> FALSE, val |-> PyNone, end |-> 0]

RECURSIVE SkipWs(_, _)
SkipWs(s, i) == IF At(s, i) \in JsonWhitespace THEN SkipWs(s, i + 1) ELSE i

\* index of the first quote or control character at or after i, -1 when none
RECURSIVE StringTerminator(_, _)
StringTerminator(s, i) ==
  IF i >= Len(s) THEN -1
  ELSE IF s[i + 1] = "\"" \/ s[i + 1] \in ControlChars THEN i
  ELSE StringTerminator(s, i + 1)

\* scanstring(s, end): end is the index after the opening quote
ScanString(s, end) ==
  LET j == StringTerminator(s, end)
  IN  IF j = -1 THEN DecodeError                \* unterminated string
      ELSE IF s[j + 1] # "\"" THEN DecodeError  \* invalid control character
      ELSE Decoded(PyStr(PySlice(s, end, j)), j + 1)

RECURSIVE ScanOnce(_, _)
RECURSIVE ObjectItems(_, _, _)

\* the loop of JSONObject: end is the index after the opening quote of a key
ObjectItems(s, end, items) ==
  LET key == ScanString(s, end)
  IN  IF ~key.ok THEN DecodeError
      ELSE
        LET colon == IF At(s, key.end) # ":" THEN SkipWs(s, key.end) ELSE key.end
        IN  IF At(s, colon) # ":" THEN DecodeError
            ELSE
              LET value == ScanOnce(s, SkipWs(s, colon + 1))
              IN  IF ~value.ok THEN DecodeError
                  ELSE
                    LET after == SkipWs(s, value.end)
                        pairs == DictSet(items, key.val.s, value.val)
                    IN  IF At(s, after) = "}" THEN Decoded(PyDict(pairs), after + 1)
                        ELSE IF At(s, after) # "," THEN DecodeError
                        ELSE
                          LET next == SkipWs(s, after + 1)
                          IN  IF At(s, next) # "\"" THEN DecodeError
                              ELSE ObjectItems(s, next + 1, pairs)

\* JSONObject(s, end): end is the index after the opening brace
JSONObject(s, end) ==
  LET first == IF At(s, end) # "\"" THEN SkipWs(s, end) ELSE end
  IN  IF At(s, first) = "}" THEN Decoded(PyDict(<<>>), first + 1)
      ELSE IF At(s, first) # "\"" THEN DecodeError
      ELSE ObjectItems(s, first + 1, <<>>)

\* scan_once(s, idx)
ScanOnce(s, idx) ==
  LET c == At(s, idx)
  IN  IF c = "\"" THEN ScanString(s, idx + 1)
      ELSE IF c = "{" THEN JSONObject(s, idx + 1)
      ELSE IF c = "null" THEN Decoded(PyNone, idx + 1)
      ELSE IF c \in NumberLits THEN Decoded(PyNum(c), idx + 1)
      ELSE DecodeError

\* json.loads(s): one value, surrounded by JSON whitespace only
JsonLoads(s) ==
  LET r == ScanOnce(s, SkipWs(s, 0))
  IN  IF ~r.ok THEN DecodeError
      ELSE IF SkipWs(s, r.end) # Len(s) THEN DecodeError    \* extra data
      ELSE r

(***************************************************************************)
(* analyze_text: the parse of the completion's content (lines 62-69)       *)
(***************************************************************************)

Returned(val) == [exc |-> "none", val |-> val]
Raised(exc) == [exc |-> exc, val |-> PyNone]

\* mutant of BraceSlice: the slice stops before the last "}"
BraceSliceExclusive(first) == PySlice(first, Find(first, "{"), RFind(first, "}"))

\* first[first.find("{"): first.rfind("}")+1]
BraceSlice(first) == PySlice(first, Find(first, "{"), RFind(first, "}") + 1)

analyze_text(content) ==
  LET first == Strip(content)
      strict == JsonLoads(first)
  IN  IF strict.ok THEN Returned(strict.val)
      ELSE LET fallback == JsonLoads(BraceSlice(first))
           IN  IF fallback.ok THEN Returned(fallback.val)
               ELSE Raised("JSONDecodeError")

(***************************************************************************)
(* Completions the language model may produce                              *)
(***************************************************************************)

Quoted(units) == <<"\"">> \o units \o <<"\"">>

\* the text of a value, as json.dumps writes it: {"k": v, "k": v}
RECURSIVE Dumps(_)
RECURSIVE DumpItems(_, _)
DumpItems(items, i) ==
  IF i > Len(items) THEN <<>>
  ELSE (IF i > 1 THEN <<",", " ">> ELSE <<>>)
       \o Quoted(items[i].k) \o <<":", " ">> \o Dumps(items[i].v)
       \o DumpItems(items, i + 1)

Dumps(val) ==
  IF val.t = "str" THEN Quoted(val.s)
  ELSE IF val.t = "number" THEN val.s
  ELSE IF val.t = "NoneType" THEN <<"null">>
  ELSE <<"{">> \o DumpItems(val.d, 1) \o <<"}">>

Item(key, val) == [k |-> <<key>>, v |-> val]

\* sequences over S of length at most n
RECURSIVE SeqsUpTo(_, _)
SeqsUpTo(S, n) ==
  IF n = 0 THEN {<<>>}
  ELSE LET shorter == SeqsUpTo(S, n - 1)
       IN  shorter \cup {Append(q, u) : q \in shorter, u \in S}

\* the items of a dict built from optional fields: each field is a set of
\* alternatives, each alternative a sequence of zero or one item
Fields(o, c, m, t) == o \o c \o m \o t

OverallAlts == {<<>>, <<Item("overall_sentiment", PyStr(<<"neutral">>))>>,
                <<Item("overall_sentiment", PyNone)>>}
ScoreAlts == {<<>>, <<Item("sentiment_score", PyNum("-0.8"))>>,
              <<Item("sentiment_score", PyStr(<<"-0.8">>))>>}
SummaryAlts == {<<>>, <<Item("summary", PyStr(<<"Hostile", " ", "language">>))>>}
ThreatAlts == {<<>>} \cup
              {<<Item("threat_level", PyStr(<<w>>))>> :
                  w \in {"none", "potential", "high", "HIGH", "severe"}} \cup
              {<<Item("threat_level", PyNone)>>}

\* every analysis object the rendering code distinguishes
AnalysisObjects ==
  {PyDict(Fields(o, c, m, t)) :
      o \in OverallAlts, c \in ScoreAlts, m \in SummaryAlts, t \in ThreatAlts}

FullAnalysis(level) ==
  PyDict(<<Item("overall_sentiment", PyStr(<<"negative">>)),
           Item("sentiment_score", PyNum("-0.8")),
           Item("summary", PyStr(<<"Hostile", " ", "language">>)),
           Item("threat_level", PyStr(<<level>>))>>)

\* what may surround or replace the object in a completion; "~~~" stands for
\* the markdown code fence of three backquotes
MaxAffix == 1
AffixUnits == {"{", "}", " ", "\"", "Here"}
Affixes ==
  SeqsUpTo(AffixUnits, MaxAffix)
    \cup {<<"~~~", "json", "\n">>, <<"\n", "~~~">>, <<"\f">>, <<"\f", "\"">>}

NestedAnalysis ==
  PyDict(<<Item("summary", PyStr(<<"ok">>)),
           Item("detail", PyDict(<<Item("threat_level", PyStr(<<"high">>))>>))>>)

ParseValues ==
  { PyDict(<<>>), FullAnalysis("high"), NestedAnalysis,
    PyDict(<<Item("threat_level", PyStr(<<"potential">>))>>),
    PyDict(<<Item("summary", PyStr(<<"a", "}", "b">>))>>),
    PyDict(<<Item("summary", PyStr(<<"{", "a">>))>>),
    PyNum("1"), PyStr(<<"none">>), PyNone }

SummaryOne == <<"{", "\"", "summary", "\"", ":", "1">>

Bodies ==
  {Dumps(v) : v \in ParseValues} \cup
  { <<>>, <<"Sorry">>,
    SummaryOne,                                             \* no closing brace
    SummaryOne \o <<",", "}">>,                             \* trailing comma
    SummaryOne \o <<"}">>,                                  \* compact, valid
    <<"{", "\n">> \o Tail(SummaryOne) \o <<"\n", "}">>,    \* spread over lines
    SummaryOne \o <<",", "\"", "summary", "\"", ":", "null", "}">>,  \* repeated key
    <<"{", "summary", ":", "1", "}">>,                      \* unquoted key
    <<"{", "\"", "summary", "\"", "1", "}">>,               \* no colon
    <<"{", "\"", "summary", "\"", ":", "\"", "a", "\n", "b", "\"", "}">>,
    SummaryOne \o <<"}">> \o SummaryOne \o <<"}">> }        \* two objects

Contents == {pre \o body \o suf : pre \in Affixes, body \in Bodies, suf \in Affixes}

\* completions offered to the whole script: every analysis object, plain and
\* fenced, and answers that are no object at all
Fenced(body) == <<"~~~", "json", "\n">> \o body \o <<"\n", "~~~">>
ScriptContents ==
  {Dumps(o) : o \in AnalysisObjects} \cup
  {Fenced(Dumps(FullAnalysis(l))) : l \in {"high", "none"}} \cup
  {<<"Sorry">>, <<"1">>, <<"null">>, Quoted(<<"high">>)}

(***************************************************************************)
(* Files: os.path.splitext, tempfile names                                 *)
(***************************************************************************)

RECURSIVE SplitFrom(_, _, _)
\* the loop of posixpath.splitext that skips leading dots
SplitFrom(p, filenameIndex, dotIndex) ==
  IF filenameIndex >= dotIndex THEN [root |-> p, ext |-> <<>>]
  ELSE IF At(p, filenameIndex) # "."
       THEN [root |-> PySlice(p, 0, dotIndex), ext |-> PySlice(p, dotIndex, Len(p))]
       ELSE SplitFrom(p, filenameIndex + 1, dotIndex)

splitext(p) ==
  LET sepIndex == RFind(p, "/")
      dotIndex == RFind(p, ".")
  IN  IF dotIndex > sepIndex THEN SplitFrom(p, sepIndex + 1, dotIndex)
      ELSE [root |-> p, ext |-> <<>>]

\* tempfile.gettempdir() and the candidate names tempfile draws, in the order drawn
TempDir == <<"/", "tmp", "/">>
TempNames == <<"tmpk3x9_a1b", "tmp0q7_zze", "tmpw_4c81x", "tmp9d_ux20">>

\* tempfile.mkstemp(suffix=...): the path of the file created
mkstemp(suffix, rand) == TempDir \o <<rand>> \o suffix

\* mutant of save_uploaded_file: the temporary file gets no suffix
SaveWithoutSuffix(name, rand) == mkstemp(<<>>, rand)

\* save_uploaded_file: the path of the file created for the upload called name
save_uploaded_file(name, rand) == mkstemp(splitext(name).ext, rand)

UploadTypes == {"mp3", "wav", "m4a", "webm", "flac", "mp4"}
Stems == {<<"clip">>, <<"take", ".", "v2">>}
\* names the uploader accepts
UploadNames == {stem \o <<".", e>> : stem \in Stems, e \in UploadTypes}

(***************************************************************************)
(* str.lower / str.upper on the words that occur as threat levels          *)
(***************************************************************************)

LowerUnit(u) == IF u = "HIGH" THEN "high" ELSE u

UpperUnit(u) ==
  CASE u = "high" -> "HIGH"
    [] u = "potential" -> "POTENTIAL"
    [] u = "none" -> "NONE"
    [] u = "severe" -> "SEVERE"
    [] OTHER -> u

Lower(units) == [i \in 1..Len(units) |-> LowerUnit(units[i])]
Upper(units) == [i \in 1..Len(units) |-> UpperUnit(units[i])]

(***************************************************************************)
(* The script                                                              *)
(***************************************************************************)

VARIABLES
  pc,           \* where the script run stands
  run,          \* script runs of this server process so far
  input_mode,   \* the sidebar's radio button
  file,         \* name of the uploaded file, <<>> when none
  audio_bytes,  \* number of audio bytes held, 0 when none
  path,         \* path of the staged file, <<>> before staging
  disk,         \* paths that exist in the temporary directory
  created,      \* paths this run created
  pending,      \* exception in flight while the finally block runs
  transcript,   \* the transcript, <<>> before transcription
  content,      \* content of the completion
  analysis,     \* what analyze_text returned
  rendered,     \* elements written to the page, in order
  error,        \* exception that ended the run, "none" otherwise
  calls         \* calls made by this run

vars == <<pc, run, input_mode, file, audio_bytes, path, disk, created, pending,
          transcript, content, analysis, rendered, error, calls>>

MaxRuns == 2

Modes == {"Upload audio file", "Record from mic"}
Transcripts == {<<"This", " ", "is", " ", "a", " ", "test", ".">>, <<>>}
NoCalls == [staged |-> 0, transcribe |-> 0, analyze |-> 0]
Ended == {"done", "stopped", "aborted"}

Element(el, text) == [el |-> el, text |-> text]
Rendered(el) == \E i \in 1..Len(rendered) : rendered[i].el = el

\* a fresh run of the script: everything but the disk starts over
Fresh ==
  /\ pc' = "source"
  /\ file' = <<>>
  /\ audio_bytes' = 0
  /\ path' = <<>>
  /\ created' = {}
  /\ pending' = "none"
  /\ transcript' = <<>>
  /\ content' = <<>>
  /\ analysis' = PyNone
  /\ rendered' = <<>>
  /\ error' = "none"
  /\ calls' = NoCalls

Init ==
  /\ pc = "source"
  /\ run = 1
  /\ input_mode \in Modes
  /\ file = <<>>
  /\ audio_bytes = 0
  /\ path = <<>>
  /\ disk = {}
  /\ created = {}
  /\ pending = "none"
  /\ transcript = <<>>
  /\ content = <<>>
  /\ analysis = PyNone
  /\ rendered = <<>>
  /\ error = "none"
  /\ calls = NoCalls

\* raise: the exception ends the run
Abort(exc) == pc' = "aborted" /\ error' = exc

\* lines 85-94: the uploader returns a file or nothing
Upload ==
  /\ pc = "source"
  /\ input_mode = "Upload audio file"
  /\ \/ file' = <<>> /\ audio_bytes' = 0
     \/ \E name \in UploadNames, n \in {0, 1} : file' = name /\ audio_bytes' = n
  /\ pc' = "gate"
  /\ UNCHANGED <<run, input_mode, path, disk, created, pending, transcript, content,
                 analysis, rendered, error, calls>>

\* lines 97-115: the recorder is imported and returns bytes or nothing
Record ==
  /\ pc = "source"
  /\ input_mode = "Record from mic"
  /\ \E installed \in BOOLEAN :
       IF installed
       THEN /\ audio_bytes' \in {0, 1}
            /\ pc' = "gate"
            /\ rendered' = rendered
       ELSE /\ audio_bytes' = 0
            /\ pc' = "stopped"
            /\ rendered' = Append(rendered, Element("not_installed", <<>>))
  /\ UNCHANGED <<run, input_mode, file, path, disk, created, pending, transcript,
                 content, analysis, error, calls>>

\* lines 118-119, 161-162: audio and a pressed button start the processing
Gate ==
  /\ pc = "gate"
  /\ IF audio_bytes # 0
     THEN /\ \E pressed \in BOOLEAN : pc' = IF pressed THEN "stage" ELSE "done"
          /\ rendered' = rendered
     ELSE /\ pc' = "done"
          /\ rendered' = Append(rendered, Element("begin_hint", <<>>))
  /\ UNCHANGED <<run, input_mode, file, audio_bytes, path, disk, created, pending,
                 transcript, content, analysis, error, calls>>

\* lines 120-127: the temporary file is created, then the bytes are written;
\* the write may fail (OSError), after the file exists
Stage ==
  /\ pc = "stage"
  /\ \E written \in BOOLEAN :
       LET upload == input_mode = "Upload audio file"
           Path(rand) == IF upload THEN save_uploaded_file(file, rand)
                         ELSE mkstemp(<<".", "wav">>, rand)
           \* a name that exists is skipped and the next candidate is tried
           free == {i \in 1..Len(TempNames) : Path(TempNames[i]) \notin disk}
           p == Path(TempNames[CHOOSE i \in free : \A j \in free : i <= j])
       IN  /\ free # {}
           /\ disk' = disk \cup {p}
           /\ created' = created \cup {p}
           /\ calls' = [calls EXCEPT !.staged = @ + 1]
           /\ IF written
              THEN path' = p /\ pc' = "transcribe" /\ error' = error
              ELSE path' = (IF upload THEN <<>> ELSE p) /\ Abort("OSError")
  /\ UNCHANGED <<run, input_mode, file, audio_bytes, pending, transcript, content,
                 analysis, rendered>>

\* line 130, lines 35-42: the file is opened and sent; the call returns a
\* transcript or raises
Transcribe ==
  /\ pc = "transcribe"
  /\ calls' = [calls EXCEPT !.transcribe = @ + 1]
  /\ IF path \notin disk
     THEN pending' = "FileNotFoundError" /\ transcript' = transcript
     ELSE \/ \E t \in Transcripts : transcript' = t /\ pending' = "none"
          \/ pending' = "APIError" /\ transcript' = transcript
  /\ pc' = "finally"
  /\ UNCHANGED <<run, input_mode, file, audio_bytes, path, disk, created, content,
                 analysis, rendered, error>>

\* mutant of Unlink: the file is removed after the call, not in a finally block
UnlinkAfterCallOnly ==
  /\ pc = "finally"
  /\ disk' = (IF pending = "none" THEN disk \ {path} ELSE disk)
  /\ IF pending # "none" THEN Abort(pending)
     ELSE pc' = "transcript" /\ error' = error
  /\ pending' = "none"
  /\ UNCHANGED <<run, input_mode, file, audio_bytes, path, created, transcript,
                 content, analysis, rendered, calls>>

\* mutant of Unlink: the exception of the call is swallowed and the run goes on
UnlinkSwallows ==
  /\ pc = "finally"
  /\ disk' = disk \ {path}
  /\ pc' = "transcript"
  /\ pending' = "none"
  /\ UNCHANGED <<run, input_mode, file, audio_bytes, path, created, transcript,
                 content, analysis, rendered, error, calls>>

\* lines 131-132: the finally block, then the exception in flight goes on
Unlink ==
  /\ pc = "finally"
  /\ disk' = disk \ {path}
  /\ IF path \notin disk THEN Abort("FileNotFoundError")
     ELSE IF pending # "none" THEN Abort(pending)
     ELSE pc' = "transcript" /\ error' = error
  /\ pending' = "none"
  /\ UNCHANGED <<run, input_mode, file, audio_bytes, path, created, transcript,
                 content, analysis, rendered, calls>>

\* mutant of RenderTranscript: the transcript is not written before the analysis
RenderTranscriptSkipped ==
  /\ pc = "transcript"
  /\ pc' = "analyze"
  /\ UNCHANGED <<run, input_mode, file, audio_bytes, path, disk, created, pending,
                 transcript, content, analysis, rendered, error, calls>>

\* lines 134-135
RenderTranscript ==
  /\ pc = "transcript"
  /\ rendered' = Append(rendered, Element("transcript", transcript))
  /\ pc' = "analyze"
  /\ UNCHANGED <<run, input_mode, file, audio_bytes, path, disk, created, pending,
                 transcript, content, analysis, error, calls>>

\* lines 137-138, 44-69: the completion call raises or returns a content,
\* which analyze_text parses
Analyze ==
  /\ pc = "analyze"
  /\ calls' = [calls EXCEPT !.analyze = @ + 1]
  /\ \/ /\ Abort("APIError")
        /\ UNCHANGED <<content, analysis>>
     \/ \E c \in ScriptContents :
          LET r == analyze_text(c)
          IN  /\ content' = c
              /\ analysis' = r.val
              /\ IF r.exc = "none" THEN pc' = "overall" /\ error' = error
                 ELSE Abort(r.exc)
  /\ UNCHANGED <<run, input_mode, file, audio_bytes, path, disk, created, pending,
                 transcript, rendered>>

\* analysis[key]: the exception the subscript raises, "none" when it yields a value
Subscript(val, key) ==
  IF val.t # "dict" THEN "TypeError"
  ELSE IF ~HasKey(val, <<key>>) THEN "KeyError"
  ELSE "none"

\* one rendering step: it faults with exc, or writes the element and goes on
RenderStep(exc, el, text, next) ==
  /\ IF exc # "none" THEN Abort(exc) /\ rendered' = rendered
     ELSE /\ rendered' = Append(rendered, Element(el, text))
          /\ pc' = next
          /\ error' = error
  /\ UNCHANGED <<run, input_mode, file, audio_bytes, path, disk, created, pending,
                 transcript, content, analysis, calls>>

\* line 144: analysis["overall_sentiment"].title()
RenderOverall ==
  /\ pc = "overall"
  /\ LET sub == Subscript(analysis, "overall_sentiment")
         exc == IF sub # "none" THEN sub
                ELSE IF GetItem(analysis, <<"overall_sentiment">>).t # "str"
                     THEN "AttributeError" ELSE "none"
     IN  RenderStep(exc, "overall", <<>>, "score")

\* line 145: f'{analysis["sentiment_score"]:.2f}'
RenderScore ==
  /\ pc = "score"
  /\ LET sub == Subscript(analysis, "sentiment_score")
         exc == IF sub # "none" THEN sub
                ELSE LET t == GetItem(analysis, <<"sentiment_score">>).t
                     IN  IF t = "number" THEN "none"
                         ELSE IF t = "str" THEN "ValueError" ELSE "TypeError"
     IN  RenderStep(exc, "score", <<>>, "summary")

\* mutant of RenderSummary: a missing summary is written as an empty default
RenderSummaryDefault ==
  /\ pc = "summary"
  /\ RenderStep("none", "summary", <<>>, "threat")

\* line 148: st.write(analysis["summary"])
RenderSummary ==
  /\ pc = "summary"
  /\ RenderStep(Subscript(analysis, "summary"), "summary", <<>>, "threat")

\* line 150: analysis.get("threat_level", "none")
ThreatOf(val) ==
  IF HasKey(val, <<"threat_level">>) THEN GetItem(val, <<"threat_level">>)
  ELSE PyStr(<<"none">>)

\* mutant of ThreatDetected: the comparison is case-sensitive
ThreatDetectedCaseSensitive(threat) == threat.s \in {<<"high">>, <<"potential">>}

\* line 151: threat.lower() in ("high", "potential")
ThreatDetected(threat) == Lower(threat.s) \in {<<"high">>, <<"potential">>}

\* lines 150-152
RenderThreat ==
  /\ pc = "threat"
  /\ LET threat == ThreatOf(analysis)
     IN  IF threat.t # "str"
         THEN RenderStep("AttributeError", "banner", <<>>, "download")
         ELSE IF ThreatDetected(threat)
              THEN RenderStep("none", "banner", Upper(threat.s), "download")
              ELSE /\ pc' = "download"
                   /\ UNCHANGED <<run, input_mode, file, audio_bytes, path, disk, created,
                                  pending, transcript, content, analysis, rendered, error,
                                  calls>>

\* lines 155-160
RenderDownload ==
  /\ pc = "download"
  /\ RenderStep("none", "download", <<>>, "done")

\* the next interaction runs the script again in the same process
Rerun ==
  /\ pc \in Ended
  /\ run < MaxRuns
  /\ run' = run + 1
  /\ input_mode' \in Modes
  /\ Fresh
  /\ UNCHANGED disk

Next ==
  \/ Upload
  \/ Record
  \/ Gate
  \/ Stage
  \/ Transcribe
  \/ Unlink
  \/ RenderTranscript
  \/ Analyze
  \/ RenderOverall
  \/ RenderScore
  \/ RenderSummary
  \/ RenderThreat
  \/ RenderDownload
  \/ Rerun

Spec == Init /\ [][Next]_vars

(***************************************************************************)
(* analyze_text on its own: the content is drawn first, then parsed        *)
(***************************************************************************)

InitAnalyze ==
  /\ pc = "call"
  /\ run = 1
  /\ input_mode = "Upload audio file"
  /\ file = <<>>
  /\ audio_bytes = 0
  /\ path = <<>>
  /\ disk = {}
  /\ created = {}
  /\ pending = "none"
  /\ transcript = <<>>
  /\ content \in Contents
  /\ analysis = PyNone
  /\ rendered = <<>>
  /\ error = "none"
  /\ calls = NoCalls

CallAnalyzeText ==
  /\ pc = "call"
  /\ LET r == analyze_text(content)
     IN  /\ analysis' = r.val
         /\ error' = r.exc
         /\ pc' = IF r.exc = "none" THEN "returned" ELSE "raised"
  /\ calls' = [calls EXCEPT !.analyze = @ + 1]
  /\ UNCHANGED <<run, input_mode, file, audio_bytes, path, disk, created, pending,
                 transcript, content, rendered>>

NextAnalyze == CallAnalyzeText

SpecAnalyze == InitAnalyze /\ [][NextAnalyze]_vars

(***************************************************************************)
(* Properties                                                              *)
(***************************************************************************)

NoUnit(s, c) == \A i \in 1..Len(s) : s[i] # c
Upload_ == input_mode = "Upload audio file"
AfterStaging == {"transcribe", "finally", "transcript", "analyze", "overall", "score",
                 "summary", "threat", "download"}
AfterTranscription == AfterStaging \ {"transcribe", "finally"}
AnalysisReturned == calls.analyze = 1 /\ error \notin {"APIError", "JSONDecodeError"}
Required == {"overall_sentiment", "sentiment_score", "summary"}

\* C1: once the finally block of the transcription step has run, whether the
\* call returned or raised, the staged file is not on disk, and no later step
\* of the run is taken while a file of this run exists.
TempFileReleased ==
  /\ (calls.transcribe > 0 /\ pc # "finally") => (path \notin disk /\ created \cap disk = {})
  /\ pc \in AfterTranscription => created \cap disk = {}
  /\ rendered # <<>> => created \cap disk = {}

ReleasedAfterTranscript ==
  pc = "transcript" /\ calls.transcribe = 1 /\ path # <<>> /\ path \notin disk /\ run = 1

\* the substring from the first "{" to the last "}" inclusive, when there is one
HasBraceSpan(first) ==
  \E i \in 1..Len(first) : \E j \in i..Len(first) : first[i] = "{" /\ first[j] = "}"

BraceSpan(first) ==
  LET i == CHOOSE a \in 1..Len(first) :
             first[a] = "{" /\ \A b \in 1..(a - 1) : first[b] # "{"
      j == CHOOSE a \in 1..Len(first) :
             first[a] = "}" /\ \A b \in (a + 1)..Len(first) : first[b] # "}"
  IN  SubSeq(first, i, j)

\* C2: analyze_text returns the strict parse of the stripped response when
\* that parse succeeds (a dumped value comes back field for field); otherwise
\* the parse of the span from the first "{" to the last "}"; and it raises the
\* parse error exactly when both fail, returning nothing then.
TwoStagePolicy ==
  pc \in {"returned", "raised"} =>
    LET first == Strip(content)
        strict == JsonLoads(first)
        second == IF HasBraceSpan(first) THEN JsonLoads(BraceSpan(first)) ELSE DecodeError
    IN  /\ strict.ok => pc = "returned" /\ analysis = strict.val
        /\ (~strict.ok /\ second.ok) => pc = "returned" /\ analysis = second.val
        /\ (~strict.ok /\ ~second.ok) =>
              pc = "raised" /\ error = "JSONDecodeError" /\ analysis = PyNone
        /\ pc = "raised" <=> (~strict.ok /\ ~second.ok)
        /\ \A v \in ParseValues : \A ws \in {<<>>, <<" ">>, <<"\n">>} :
              content = ws \o Dumps(v) \o ws => pc = "returned" /\ analysis = v

FallbackTaken ==
  /\ pc = "returned"
  /\ ~JsonLoads(Strip(content)).ok
  /\ analysis = FullAnalysis("high")
  /\ content[1] = "Here"

\* C3: a response prefix + object + suffix, the object a valid JSON object, no
\* "{" in the prefix, no "}" in the suffix, the whole not valid JSON, yields
\* exactly the parse of the object.
RecoversWrappedObject ==
  pc \in {"returned", "raised"} =>
    \A i \in 1..Len(content) : \A j \in i..Len(content) :
      LET object == SubSeq(content, i, j)
      IN  ( /\ content[i] = "{"
            /\ content[j] = "}"
            /\ NoUnit(SubSeq(content, 1, i - 1), "{")
            /\ NoUnit(SubSeq(content, j + 1, Len(content)), "}")
            /\ JsonLoads(object).ok
            /\ ~JsonLoads(content).ok )
          => (pc = "returned" /\ analysis = JsonLoads(object).val)

\* C4: a response without any "{" or "}" makes analyze_text raise the parse
\* error; it returns nothing.
NoBracesRaises ==
  (pc \in {"returned", "raised"} /\ NoUnit(content, "{") /\ NoUnit(content, "}"))
    => (pc = "raised" /\ error = "JSONDecodeError")

ThreatPresent(val) ==
  /\ HasKey(val, <<"threat_level">>)
  /\ GetItem(val, <<"threat_level">>).t = "str"
  /\ Lower(GetItem(val, <<"threat_level">>).s) \in {<<"high">>, <<"potential">>}

BannerText == rendered[CHOOSE i \in 1..Len(rendered) : rendered[i].el = "banner"].text

\* C5, as claimed: at the end of a run whose analysis was returned, the banner
\* is on the page if and only if the analysis holds a threat_level that
\* lower-cases to potential or high.
BannerIffThreat ==
  (pc \in Ended /\ AnalysisReturned) => (Rendered("banner") <=> ThreatPresent(analysis))

\* C5, amended: the banner is rendered only for such a threat_level, with the
\* upper-cased level of the analysis as its text, never when threat_level is
\* omitted; and it is rendered for every such threat_level once the rendering
\* has passed the sentiment and the summary.
BannerOnlyForThreat ==
  /\ Rendered("banner") =>
       /\ AnalysisReturned
       /\ ThreatPresent(analysis)
       /\ BannerText = Upper(GetItem(analysis, <<"threat_level">>).s)
  /\ (AnalysisReturned /\ ~HasKey(analysis, <<"threat_level">>)) =>
       (ThreatOf(analysis) = PyStr(<<"none">>) /\ ~Rendered("banner"))
  /\ (AnalysisReturned /\ pc \in {"download", "done"}) =>
       (Rendered("banner") <=> ThreatPresent(analysis))

BannerShown ==
  /\ pc = "done"
  /\ Rendered("banner")
  /\ BannerText = <<"HIGH">>
  /\ GetItem(analysis, <<"threat_level">>).s = <<"HIGH">>

\* C6: every file a run stages carries the extension of the uploaded name in
\* upload mode and ".wav" in microphone mode, and a run that got past staging
\* staged exactly one file.
StagedExtension ==
  /\ \A p \in created :
       /\ Upload_ => splitext(p).ext = <<".", file[Len(file)]>>
       /\ ~Upload_ => splitext(p).ext = <<".", "wav">>
  /\ calls.staged = Cardinality(created)
  /\ calls.staged <= 1
  /\ pc \in AfterStaging => (calls.staged = 1 /\ created = {path})

StagedDottedUpload ==
  /\ pc = "transcribe"
  /\ Upload_
  /\ file = <<"take", ".", "v2", ".", "mp3">>
  /\ splitext(path).ext = <<".", "mp3">>

\* C7: a transcription call that raised ends the run: the next step is the
\* abort, with one transcription call, no analysis call, nothing rendered and
\* the file gone; and nothing of the run follows an abort.
TranscriptionFailureTerminal ==
  [][ /\ (pc = "finally" /\ pending # "none") =>
           /\ pc' = "aborted"
           /\ error' = pending
           /\ calls'.transcribe = 1
           /\ calls'.analyze = 0
           /\ rendered' = <<>>
           /\ path \notin disk'
      /\ pc = "aborted" => run' = run + 1 ]_vars

TranscriptionFailed ==
  /\ pc = "aborted"
  /\ error = "APIError"
  /\ calls.transcribe = 1
  /\ calls.analyze = 0
  /\ path # <<>>

\* the page elements an analysis field feeds
ElementOf(key) ==
  CASE key = "overall_sentiment" -> "overall"
    [] key = "sentiment_score" -> "score"
    [] key = "summary" -> "summary"

\* C8: when the returned analysis lacks overall_sentiment, sentiment_score or
\* summary, nothing is rendered for the missing field, the download is never
\* offered and the run ends in a fault; a missing threat_level alone is
\* tolerated.
MissingFieldFaults ==
  AnalysisReturned =>
    /\ \A k \in Required :
         ~HasKey(analysis, <<k>>) =>
            /\ ~Rendered(ElementOf(k))
            /\ ~Rendered("download")
            /\ pc # "done"
            /\ pc \in Ended => (pc = "aborted" /\ error \in {"KeyError", "TypeError",
                                                              "AttributeError", "ValueError"})
    /\ Rendered("download") => \A k \in Required : HasKey(analysis, <<k>>)

SummaryMissingFault ==
  /\ pc = "aborted"
  /\ error = "KeyError"
  /\ Rendered("score")
  /\ ~HasKey(analysis, <<"summary">>)
  /\ HasKey(analysis, <<"threat_level">>)

\* C9: at the end of a run none of the files it created is on disk.
NoTempFileAtEnd == pc \in Ended => created \cap disk = {}

\* C10: the steps come in the order stage, transcribe, delete, render the
\* transcript, analyze, render the results; a run that ended in the parse
\* error or a rendering fault shows the transcript.
StepOrder ==
  /\ calls.transcribe > 0 => calls.staged = 1
  /\ Rendered("transcript") =>
       (calls.transcribe = 1 /\ path \notin disk /\ rendered[1] = Element("transcript", transcript))
  /\ calls.analyze > 0 => Rendered("transcript")
  /\ (\E i \in 1..Len(rendered) : rendered[i].el \notin {"transcript", "begin_hint",
                                                          "not_installed"})
       => (calls.analyze = 1 /\ AnalysisReturned)
  /\ error \in {"JSONDecodeError", "KeyError", "TypeError", "AttributeError", "ValueError"}
       => Rendered("transcript")

ParseErrorAfterTranscript ==
  /\ pc = "aborted"
  /\ error = "JSONDecodeError"
  /\ rendered = <<Element("transcript", transcript)>>
  /\ transcript # <<>>

====
